---- MODULE Spec2Model ----
(***************************************************************************)
(* Model of src/src/claims.rs: the JWT claim set (JWTClaims), its builder  *)
(* methods, the audience dual representation (Audiences) and the validator *)
(* (JWTClaims::validate).                                                  *)
(*                                                                         *)
(* Option<T> is modelled as a set with at most one element: None is {} and *)
(* Some(x) is {x}.  UnixTimeStamp and Duration are the same unsigned tick  *)
(* count (coarsetime::Duration wraps one u64); the model keeps the wrap    *)
(* point, scaled from 2^64 down to 2^TimeBits.                             *)
(***************************************************************************)
EXTENDS Integers, Sequences, FiniteSets, TLC

VARIABLES
    claims,          \* the JWTClaims value the program holds
    owned,           \* TRUE while the caller owns `claims` (FALSE before creation and after a builder dropped it)
    now,             \* Clock::now_since_epoch()
    overflow_checks, \* build profile: TRUE when integer overflow panics, FALSE when it wraps
    options,         \* the VerificationOptions of the latest validate call
    result,          \* what the latest operation returned
    calls            \* the latest audience-builder calls, oldest first (at most two)

vars == <<claims, owned, now, overflow_checks, options, result, calls>>

----
\* Bounds of the model.

\* Width of the unsigned tick counter (u64 in the program).
TimeBits == 12

Modulus == 2 ^ TimeBits

----
\* Option<T>

None == {}
Some(x) == {x}
Unwrap(o) == CHOOSE x \in o : TRUE

----
\* coarsetime::Duration arithmetic on the u64 tick count: `+` and `-` are the
\* plain integer operators, which panic on overflow when overflow checks are
\* compiled in and wrap otherwise.

AddOverflows(a, b) == a + b >= Modulus
SubOverflows(a, b) == a < b
WrappingAdd(a, b) == (a + b) % Modulus
WrappingSub(a, b) == (a - b + Modulus) % Modulus

\* a + b and a - b as the build computes them: None stands for the panic.
DurationAdd(a, b, checks) ==
    IF AddOverflows(a, b) /\ checks THEN None ELSE Some(WrappingAdd(a, b))
DurationSub(a, b, checks) ==
    IF SubOverflows(a, b) /\ checks THEN None ELSE Some(WrappingSub(a, b))

DEFAULT_TIME_TOLERANCE_SECS == 900

----
\* enum Audiences

AsSet(S) == [tag |-> "AsSet", set |-> S, str |-> ""]
AsString(s) == [tag |-> "AsString", set |-> {}, str |-> s]
is_set(a) == a.tag = "AsSet"
is_string(a) == ~is_set(a)

----
\* struct JWTClaims<CustomClaims>

JWTClaims(iat, exp, nbf, iss, sub, aud, mode, jti, nonce, custom) ==
    [issued_at |-> iat, expires_at |-> exp, invalid_before |-> nbf,
     issuer |-> iss, subject |-> sub, audiences |-> aud,
     audiences_as_string |-> mode, jwt_id |-> jti, nonce |-> nonce,
     custom |-> custom]

\* The place holder held before any claim set has been created.
NoClaims == JWTClaims(None, None, None, None, None, None, FALSE, None, None, "NoCustomClaims")

\* Claims::create and Claims::with_custom_claims build the same struct; `t` is
\* the clock reading and `exp` the already computed t + valid_for.
NewClaims(t, exp, custom) ==
    JWTClaims(Some(t), Some(exp), Some(t), None, None, None, FALSE, None, None, custom)

----
\* fn convert_audiences_format(&mut self) -> Result<(), Error>
\* Returns the claim set as the call leaves it and the Result.

ConvOk(c) == [claims |-> c, result |-> "Ok"]
ConvErr(c, e) == [claims |-> c, result |-> e]

\* Mutant: the conversion back to a set is missing.
convert_audiences_format_keeps_string(c) ==
    IF c.audiences_as_string
    THEN IF c.audiences = None \/ is_string(Unwrap(c.audiences))
         THEN ConvOk(c)
         ELSE LET audiences == Unwrap(c.audiences).set IN
              IF Cardinality(audiences) > 1
              THEN ConvErr(c, "TooManyAudiences")
              ELSE ConvOk([c EXCEPT !.audiences =
                       Some(AsString(IF audiences = {} THEN ""
                                     ELSE CHOOSE x \in audiences : TRUE))])
    ELSE ConvOk(c)

\* Mutant: the length check before the conversion to a string is missing.
convert_audiences_format_unchecked(c) ==
    IF c.audiences_as_string
    THEN IF c.audiences = None \/ is_string(Unwrap(c.audiences))
         THEN ConvOk(c)
         ELSE LET audiences == Unwrap(c.audiences).set IN
              ConvOk([c EXCEPT !.audiences =
                       Some(AsString(IF audiences = {} THEN ""
                                     ELSE CHOOSE x \in audiences : TRUE))])
    ELSE IF c.audiences = None \/ is_set(Unwrap(c.audiences))
         THEN ConvOk(c)
         ELSE LET audiences == Unwrap(c.audiences).str IN
              ConvOk([c EXCEPT !.audiences =
                       Some(AsSet(IF audiences # "" THEN {audiences} ELSE {}))])

convert_audiences_format(c) ==
    IF c.audiences_as_string
    THEN \* convert audiences to a string
         IF c.audiences = None \/ is_string(Unwrap(c.audiences))
         THEN ConvOk(c)
         ELSE LET audiences == Unwrap(c.audiences).set IN
              IF Cardinality(audiences) > 1
              THEN ConvErr(c, "TooManyAudiences")
              ELSE ConvOk([c EXCEPT !.audiences =
                       Some(AsString(IF audiences = {} THEN ""
                                     ELSE CHOOSE x \in audiences : TRUE))])
    ELSE \* convert audiences to a set
         IF c.audiences = None \/ is_set(Unwrap(c.audiences))
         THEN ConvOk(c)
         ELSE LET audiences == Unwrap(c.audiences).str IN
              ConvOk([c EXCEPT !.audiences =
                       Some(AsSet(IF audiences # "" THEN {audiences} ELSE {}))])

\* Mutant: the mode is stored and the audience value is not converted.
audiences_as_string_flag_only(c, serialize_as_string) ==
    ConvOk([c EXCEPT !.audiences_as_string = serialize_as_string])

\* pub fn audiences_as_string(mut self, serialize_as_string: bool) -> Result<Self, Error>
audiences_as_string(c, serialize_as_string) ==
    convert_audiences_format([c EXCEPT !.audiences_as_string = serialize_as_string])

\* Mutant: the set is stored and not converted to the current mode.
with_audiences_unconverted(c, audiences) ==
    ConvOk([c EXCEPT !.audiences = Some(AsSet(audiences))])

\* pub fn with_audiences(mut self, audiences: HashSet<impl ToString>) -> Result<Self, Error>
with_audiences(c, audiences) ==
    convert_audiences_format([c EXCEPT !.audiences = Some(AsSet(audiences))])

----
\* struct VerificationOptions (crate::common), as validate reads it.

VerificationOptions(tol, rb, mv, af, riss, rsub, rnonce, raud) ==
    [time_tolerance |-> tol, reject_before |-> rb, max_validity |-> mv,
     accept_future |-> af, required_issuer |-> riss, required_subject |-> rsub,
     required_nonce |-> rnonce, required_audiences |-> raud]

NoRequirements == VerificationOptions(None, None, None, FALSE, None, None, None, None)

\* options.time_tolerance.unwrap_or_else(|| Duration::from_secs(DEFAULT_TIME_TOLERANCE_SECS))
time_tolerance(o) ==
    IF o.time_tolerance = None THEN DEFAULT_TIME_TOLERANCE_SECS
    ELSE Unwrap(o.time_tolerance)

----
\* fn validate(&self, options: &VerificationOptions) -> Result<(), Error>
\* One operator per check of the function body, each giving "Ok", the error
\* the check returns, or "Panic" when its arithmetic overflows in a build
\* with overflow checks.

validate_reject_before(o, t) ==
    IF o.reject_before = None THEN "Ok"
    ELSE IF t <= Unwrap(o.reject_before) THEN "Ok" ELSE "OldTokenReused"

validate_issued_at(c, o, t, checks) ==
    IF c.issued_at = None THEN "Ok"
    ELSE LET time_issued == Unwrap(c.issued_at)
             limit == DurationAdd(t, time_tolerance(o), checks)
         IN  IF limit = None THEN "Panic"
             ELSE IF ~(time_issued <= Unwrap(limit)) THEN "ClockDrift"
             ELSE IF o.max_validity = None THEN "Ok"
             ELSE IF t <= time_issued THEN "Ok"
             ELSE LET age == DurationSub(t, time_issued, checks) IN
                  IF age = None THEN "Panic"
                  ELSE IF Unwrap(age) <= Unwrap(o.max_validity) THEN "Ok"
                  ELSE "TokenIsTooOld"

validate_invalid_before(c, o, t) ==
    IF o.accept_future THEN "Ok"
    ELSE IF c.invalid_before = None THEN "Ok"
    ELSE IF t >= Unwrap(c.invalid_before) THEN "Ok" ELSE "TokenNotValidYet"

validate_expires_at(c, o, t, checks) ==
    IF c.expires_at = None THEN "Ok"
    ELSE LET earliest == DurationSub(t, time_tolerance(o), checks) IN
         IF earliest = None THEN "Panic"
         ELSE IF Unwrap(earliest) <= Unwrap(c.expires_at) THEN "Ok"
         ELSE "TokenHasExpired"

validate_required_issuer(c, o) ==
    IF o.required_issuer = None THEN "Ok"
    ELSE IF c.issuer # None
         THEN IF Unwrap(c.issuer) = Unwrap(o.required_issuer) THEN "Ok"
              ELSE "RequiredIssuerMismatch"
         ELSE "RequiredIssuerMissing"

\* Mutant: the two subject errors are swapped.
validate_required_subject_swapped(c, o) ==
    IF o.required_subject = None THEN "Ok"
    ELSE IF c.subject # None
         THEN IF Unwrap(c.subject) = Unwrap(o.required_subject) THEN "Ok"
              ELSE "RequiredSubjectMissing"
         ELSE "RequiredSubjectMismatch"

validate_required_subject(c, o) ==
    IF o.required_subject = None THEN "Ok"
    ELSE IF c.subject # None
         THEN IF Unwrap(c.subject) = Unwrap(o.required_subject) THEN "Ok"
              ELSE "RequiredSubjectMismatch"
         ELSE "RequiredSubjectMissing"

validate_required_nonce(c, o) ==
    IF o.required_nonce = None THEN "Ok"
    ELSE IF c.nonce # None
         THEN IF Unwrap(c.nonce) = Unwrap(o.required_nonce) THEN "Ok"
              ELSE "RequiredNonceMismatch"
         ELSE "RequiredNonceMissing"

\* Mutant: an absent audience claim fails even when nothing is required.
validate_required_audiences_always_missing(c, o) ==
    IF o.required_audiences = None THEN "Ok"
    ELSE LET required_audiences == Unwrap(o.required_audiences) IN
         IF c.audiences # None
         THEN LET a == Unwrap(c.audiences)
                  audiences == IF is_string(a) THEN {a.str} ELSE a.set
              IN  IF \A required_audience \in required_audiences :
                         required_audience \in audiences
                  THEN "Ok" ELSE "RequiredAudiencesMismatch"
         ELSE "RequiredAudiencesMissing"

validate_required_audiences(c, o) ==
    IF o.required_audiences = None THEN "Ok"
    ELSE LET required_audiences == Unwrap(o.required_audiences) IN
         IF c.audiences # None
         THEN LET a == Unwrap(c.audiences)
                  audiences == IF is_string(a) THEN {a.str} ELSE a.set
              IN  IF \A required_audience \in required_audiences :
                         required_audience \in audiences
                  THEN "Ok" ELSE "RequiredAudiencesMismatch"
         ELSE IF required_audiences # {} THEN "RequiredAudiencesMissing"
         ELSE "Ok"

\* The checks in the order the function body runs them.
validate_checks(c, o, t, checks) ==
    << validate_reject_before(o, t),
       validate_issued_at(c, o, t, checks),
       validate_invalid_before(c, o, t),
       validate_expires_at(c, o, t, checks),
       validate_required_issuer(c, o),
       validate_required_subject(c, o),
       validate_required_nonce(c, o),
       validate_required_audiences(c, o) >>

\* ensure!/bail! return at the first check that fails; Ok(()) after the last.
validate(c, o, t, checks) ==
    LET rs == validate_checks(c, o, t, checks)
        failing == {i \in DOMAIN rs : rs[i] # "Ok"}
    IN  IF failing = {} THEN "Ok"
        ELSE rs[CHOOSE i \in failing : \A j \in failing : i <= j]

----
\* Inputs of the builder behaviours (Spec).

StartTimes == {1000, Modulus - 300}
ValidFor == {0, 600}
CustomPayloads == {"custom"}
Issuers == {"svc-a"}
Subjects == {"user-1"}
JwtIds == {"jti-1"}
Nonces == {"n-1"}
\* Base64UrlSafeNoPadding encodings of 24 random bytes (32 characters each).
GeneratedNonces == {"c29tZSByYW5kb20gMjQgYnl0ZXMgQUFB", "b3RoZXIgcmFuZG9tIDI0IGJ5dGVzIEJC"}
InvalidBeforeArgs == {2000}
AudienceArgs == {{}, {""}, {"aud-1"}, {"aud-1", "aud-2"}}

----
\* The record of one audience-builder call: what was called, with what, on
\* which audience value and mode, and what it returned.

Call(op, mode, set, c, r) ==
    [op |-> op, mode |-> mode, set |-> set,
     audiences_before |-> c.audiences, mode_before |-> c.audiences_as_string,
     result |-> r]

Push(cs, call) == IF Len(cs) < 2 THEN Append(cs, call) ELSE <<cs[2], call>>

Running == result # "Panic"

----
\* Claims::create(valid_for) and Claims::with_custom_claims(custom, valid_for)

Construct(custom, valid_for) ==
    LET exp == DurationAdd(now, valid_for, overflow_checks) IN
    /\ Running
    /\ IF exp = None
       THEN /\ result' = "Panic"
            /\ UNCHANGED <<claims, owned, calls>>
       ELSE /\ claims' = NewClaims(now, Unwrap(exp), custom)
            /\ owned' = TRUE
            /\ result' = "Ok"
            /\ calls' = << >>
    /\ UNCHANGED <<now, overflow_checks, options>>

Create == \E valid_for \in ValidFor : Construct("NoCustomClaims", valid_for)

WithCustomClaims ==
    \E custom \in CustomPayloads, valid_for \in ValidFor : Construct(custom, valid_for)

\* The infallible builders: set one field, return self.
SetField(c) ==
    /\ Running
    /\ owned
    /\ claims' = c
    /\ result' = "Ok"
    /\ UNCHANGED <<owned, now, overflow_checks, options, calls>>

InvalidBefore ==
    \E unix_timestamp \in InvalidBeforeArgs :
        SetField([claims EXCEPT !.invalid_before = Some(unix_timestamp)])

WithIssuer == \E issuer \in Issuers : SetField([claims EXCEPT !.issuer = Some(issuer)])

WithSubject == \E subject \in Subjects : SetField([claims EXCEPT !.subject = Some(subject)])

WithJwtId == \E jwt_id \in JwtIds : SetField([claims EXCEPT !.jwt_id = Some(jwt_id)])

WithNonce == \E nonce \in Nonces : SetField([claims EXCEPT !.nonce = Some(nonce)])

CreateNonce == \E nonce \in GeneratedNonces : SetField([claims EXCEPT !.nonce = Some(nonce)])

\* The fallible builders take self by value: Ok(self) gives the claim set back,
\* the `?` on an error returns the error alone and self is dropped as the call
\* left it.
Fallible(out, call) ==
    /\ Running
    /\ owned
    /\ claims' = out.claims
    /\ result' = out.result
    /\ owned' = (out.result = "Ok")
    /\ calls' = Push(calls, call)
    /\ UNCHANGED <<now, overflow_checks, options>>

AudiencesAsString ==
    \E serialize_as_string \in BOOLEAN :
        LET out == audiences_as_string(claims, serialize_as_string) IN
        Fallible(out, Call("audiences_as_string", serialize_as_string, {}, claims, out.result))

WithAudiences ==
    \E audiences \in AudienceArgs :
        LET out == with_audiences(claims, audiences) IN
        Fallible(out, Call("with_audiences", FALSE, audiences, claims, out.result))

\* claims.validate(&options) on the claim set and policy at hand.
Validate ==
    /\ owned
    /\ result = "None"
    /\ result' = validate(claims, options, now, overflow_checks)
    /\ UNCHANGED <<claims, owned, now, overflow_checks, options, calls>>

Init ==
    /\ claims = NoClaims
    /\ owned = FALSE
    /\ now \in StartTimes
    /\ overflow_checks \in BOOLEAN
    /\ options = NoRequirements
    /\ result = "None"
    /\ calls = << >>

Next ==
    \/ Create
    \/ WithCustomClaims
    \/ InvalidBefore
    \/ WithIssuer
    \/ WithSubject
    \/ WithJwtId
    \/ WithNonce
    \/ CreateNonce
    \/ AudiencesAsString
    \/ WithAudiences

Spec == Init /\ [][Next]_vars

----
\* Inputs of the validator behaviours (SpecValidate): the claim set is the one
\* decoded from a received token, so any field may be absent or carry any
\* value; the policy is the caller's; the clock is read once.

NowValues == {10, 1000, Modulus - 100}
Tolerances == {None, Some(0), Some(100)}
RejectBefores == {None, Some(500), Some(1000)}
MaxValidities == {None, Some(50)}
IssuedAts == {None, Some(5), Some(990), Some(1100), Some(Modulus - 50)}
InvalidBefores == {None, Some(1000), Some(1001)}
ExpiresAts == {None, Some(100), Some(900), Some(Modulus - 1)}
ClaimStrings == {None, Some("x"), Some("y")}
RequiredStrings == {None, Some("x")}
ClaimAudiences ==
    {None, Some(AsSet({})), Some(AsSet({"a"})), Some(AsSet({"a", "b"})),
     Some(AsString("a")), Some(AsString(""))}
RequiredAudiences ==
    {None, Some({}), Some({"a"}), Some({"a", "b"}), Some({"c"}), Some({""})}

\* A decoded claim set: audiences_as_string is #[serde(skip, default)].
Decoded(iat, exp, nbf, iss, sub, aud, nonce) ==
    JWTClaims(iat, exp, nbf, iss, sub, aud, FALSE, None, nonce, "NoCustomClaims")

\* Every combination of the time fields and time options, no identity requirement.
TimeInputs ==
    \E t \in NowValues, tol \in Tolerances, rb \in RejectBefores,
       mv \in MaxValidities, af \in BOOLEAN, iat \in IssuedAts,
       nbf \in InvalidBefores, exp \in ExpiresAts, riss \in RequiredStrings :
        /\ now = t
        /\ claims = Decoded(iat, exp, nbf, None, None, None, None)
        /\ options = VerificationOptions(tol, rb, mv, af, riss, None, None, None)

\* Every combination of the identity fields and requirements, on a token that
\* passes the time checks.
IdentityInputs ==
    \E iss \in ClaimStrings, sub \in ClaimStrings, nonce \in ClaimStrings,
       aud \in ClaimAudiences, riss \in RequiredStrings, rsub \in RequiredStrings,
       rnonce \in RequiredStrings, raud \in RequiredAudiences :
        /\ now = 1000
        /\ claims = Decoded(Some(990), Some(1600), Some(990), iss, sub, aud, nonce)
        /\ options = VerificationOptions(None, None, None, FALSE, riss, rsub, rnonce, raud)

\* Each check passing or failing next to each other check.
MixedInputs ==
    \E rb \in {None, Some(500)}, mv \in MaxValidities,
       iat \in {None, Some(5), Some(2000)}, nbf \in {None, Some(1001)},
       exp \in {None, Some(50)}, iss \in ClaimStrings, sub \in ClaimStrings,
       nonce \in ClaimStrings, aud \in {None, Some(AsSet({"a"}))},
       riss \in RequiredStrings, rsub \in RequiredStrings,
       rnonce \in RequiredStrings, raud \in {None, Some({"a"}), Some({"c"})} :
        /\ now = 1000
        /\ claims = Decoded(iat, exp, nbf, iss, sub, aud, nonce)
        /\ options = VerificationOptions(None, rb, mv, FALSE, riss, rsub, rnonce, raud)

\* Claims::create(valid_for).with_issuer("svc-a").with_subject("user-1")
\*     .with_audiences({"aud-1", "aud-2"}), validated 10 s and 20 min later.
ScenarioInputs ==
    \E valid_for \in {0, 600}, later \in {10, 1200}, raud \in {{"aud-1"}, {"aud-3"}} :
        LET built == with_audiences(
                        [NewClaims(1000, 1000 + valid_for, "NoCustomClaims")
                            EXCEPT !.issuer = Some("svc-a"), !.subject = Some("user-1")],
                        {"aud-1", "aud-2"})
        IN  /\ now = 1000 + later
            /\ claims = built.claims
            /\ options = VerificationOptions(None, None, None, FALSE, Some("svc-a"),
                                             None, None, Some(raud))

InitValidate ==
    /\ owned = TRUE
    /\ overflow_checks \in BOOLEAN
    /\ result = "None"
    /\ calls = << >>
    /\ \/ TimeInputs
       \/ IdentityInputs
       \/ MixedInputs
       \/ ScenarioInputs

NextValidate == Validate

SpecValidate == InitValidate /\ [][NextValidate]_vars

----
\* Properties of the validator, checked under SpecValidate.

Validated == result # "None"

\* The checks of the validator as section 4.2 of the specification states
\* them, over the unbounded integers: each gives the error it reports or "Ok".
Tol == time_tolerance(options)

Stated_reject_before ==
    IF options.reject_before # None /\ ~(now <= Unwrap(options.reject_before))
    THEN "OldTokenReused" ELSE "Ok"

Stated_issued_at ==
    IF claims.issued_at = None THEN "Ok"
    ELSE IF ~(Unwrap(claims.issued_at) <= now + Tol) THEN "ClockDrift"
    ELSE IF /\ options.max_validity # None
            /\ ~(\/ now <= Unwrap(claims.issued_at)
                 \/ now - Unwrap(claims.issued_at) <= Unwrap(options.max_validity))
         THEN "TokenIsTooOld" ELSE "Ok"

Stated_invalid_before ==
    IF /\ ~options.accept_future
       /\ claims.invalid_before # None
       /\ ~(now >= Unwrap(claims.invalid_before))
    THEN "TokenNotValidYet" ELSE "Ok"

Stated_expires_at ==
    IF claims.expires_at # None /\ ~(now - Tol <= Unwrap(claims.expires_at))
    THEN "TokenHasExpired" ELSE "Ok"

Stated_required(required, field, missing, mismatch) ==
    IF required = None THEN "Ok"
    ELSE IF field = None THEN missing
    ELSE IF field # required THEN mismatch
    ELSE "Ok"

\* The audience value normalised to a set: AsString(s) stands for {s}.
AudienceSet(a) == IF a.tag = "AsString" THEN {a.str} ELSE a.set

Stated_required_audiences ==
    IF options.required_audiences = None \/ options.required_audiences = Some({})
    THEN "Ok"
    ELSE IF claims.audiences = None THEN "RequiredAudiencesMissing"
    ELSE IF \E r \in Unwrap(options.required_audiences) :
                r \notin AudienceSet(Unwrap(claims.audiences))
         THEN "RequiredAudiencesMismatch"
    ELSE "Ok"

StatedChecks ==
    << Stated_reject_before,
       Stated_issued_at,
       Stated_invalid_before,
       Stated_expires_at,
       Stated_required(options.required_issuer, claims.issuer,
                       "RequiredIssuerMissing", "RequiredIssuerMismatch"),
       Stated_required(options.required_subject, claims.subject,
                       "RequiredSubjectMissing", "RequiredSubjectMismatch"),
       Stated_required(options.required_nonce, claims.nonce,
                       "RequiredNonceMissing", "RequiredNonceMismatch"),
       Stated_required_audiences >>

FirstStatedFailure ==
    LET failing == {i \in DOMAIN StatedChecks : StatedChecks[i] # "Ok"} IN
    IF failing = {} THEN "Ok"
    ELSE StatedChecks[CHOOSE i \in failing : \A j \in failing : i <= j]

\* C1: validate returns the error of the earliest stated check that is
\* violated, in the order reject_before, issued_at, invalid_before,
\* expires_at, issuer, subject, nonce, audiences, and Ok only when none is;
\* in particular OldTokenReused whenever reject_before is set and
\* now > reject_before.
C1_FirstFailingCheck ==
    Validated =>
        /\ result = FirstStatedFailure
        /\ (options.reject_before # None /\ now > Unwrap(options.reject_before)
               => result = "OldTokenReused")

\* The checks the code ran before check number k all passed.
CodeChecks == validate_checks(claims, options, now, overflow_checks)
EarlierPass(k) == \A i \in 1 .. (k - 1) : CodeChecks[i] = "Ok"
OthersPass(k) == \A i \in DOMAIN CodeChecks : i # k => CodeChecks[i] = "Ok"

\* C2: with expires_at = T and every other check passing, validate succeeds
\* for every now <= T + time_tolerance and fails with TokenHasExpired for
\* every now > T + time_tolerance, for every unsigned now.
C2_ExpiryBoundary ==
    (Validated /\ claims.expires_at # None /\ OthersPass(4)) =>
        IF now <= Unwrap(claims.expires_at) + Tol
        THEN result = "Ok"
        ELSE result = "TokenHasExpired"

\* C3: with reject_before set, every claim set issued at or before
\* reject_before is rejected, whatever now is.
C3_RejectsIssuedBeforeCutoff ==
    ( /\ Validated
      /\ options.reject_before # None
      /\ claims.issued_at # None
      /\ Unwrap(claims.issued_at) <= Unwrap(options.reject_before) )
    => result # "Ok"

\* C7: for issuer, subject and nonce, when the value is required and the
\* earlier checks pass, validate fails with Missing exactly when the field is
\* absent, with Mismatch exactly when it is present and differs, and not on
\* that field when it is present and equal; Missing is never returned for a
\* present field nor Mismatch for an absent one.
RequiredFieldOutcome(k, required, field, missing, mismatch) ==
    /\ (required # None /\ EarlierPass(k)) =>
          /\ (result = missing) <=> (field = None)
          /\ (result = mismatch) <=> (field # None /\ field # required)
          /\ (field = required) => CodeChecks[k] = "Ok"
    /\ (result = missing) => (field = None /\ required # None)
    /\ (result = mismatch) => (field # None /\ required # None)

C7_MissingVersusMismatch ==
    Validated =>
        /\ RequiredFieldOutcome(5, options.required_issuer, claims.issuer,
                                "RequiredIssuerMissing", "RequiredIssuerMismatch")
        /\ RequiredFieldOutcome(6, options.required_subject, claims.subject,
                                "RequiredSubjectMissing", "RequiredSubjectMismatch")
        /\ RequiredFieldOutcome(7, options.required_nonce, claims.nonce,
                                "RequiredNonceMissing", "RequiredNonceMismatch")

C7_Witness ==
    /\ result = "RequiredNonceMismatch"
    /\ options.required_issuer = Some("x") /\ claims.issuer = Some("x")
    /\ options.required_subject = Some("x") /\ claims.subject = Some("x")
    /\ claims.nonce = Some("y")

\* C8: when the earlier checks pass and required_audiences is non-empty,
\* validate fails with RequiredAudiencesMissing if there is no audience value
\* and otherwise with RequiredAudiencesMismatch exactly when a required
\* audience is not in the claim's audience set (AsString(s) counting as {s});
\* when required_audiences is unset or empty the check never fails.
C8_RequiredAudiences ==
    (Validated /\ EarlierPass(8)) =>
        IF options.required_audiences # None /\ Unwrap(options.required_audiences) # {}
        THEN IF claims.audiences = None
             THEN result = "RequiredAudiencesMissing"
             ELSE /\ result \in {"Ok", "RequiredAudiencesMismatch"}
                  /\ (result = "RequiredAudiencesMismatch") <=>
                        (\E r \in Unwrap(options.required_audiences) :
                            r \notin AudienceSet(Unwrap(claims.audiences)))
        ELSE result = "Ok"

C8_Witness ==
    /\ result = "RequiredAudiencesMismatch"
    /\ claims.audiences = Some(AsString("a"))
    /\ options.required_audiences = Some({"a", "b"})

\* C9: when issued_at is present and the reject_before check passes, validate
\* fails with ClockDrift exactly when issued_at > now + time_tolerance, and
\* otherwise, when max_validity is set, with TokenIsTooOld exactly when
\* now > issued_at and now - issued_at > max_validity; with issued_at absent
\* neither error is returned.
C9_IssuedAtChecks ==
    Validated =>
        /\ (claims.issued_at # None /\ EarlierPass(2)) =>
              LET iat == Unwrap(claims.issued_at) IN
              /\ (result = "ClockDrift") <=> (iat > now + Tol)
              /\ (iat <= now + Tol /\ options.max_validity # None) =>
                    ((result = "TokenIsTooOld") <=>
                        (now > iat /\ now - iat > Unwrap(options.max_validity)))
              /\ (iat <= now + Tol /\ options.max_validity = None) =>
                    result # "TokenIsTooOld"
        /\ claims.issued_at = None => result \notin {"ClockDrift", "TokenIsTooOld"}

----
\* Properties of the audience builders, checked under Spec.

LastCall == calls[Len(calls)]

\* The two latest audience calls were audiences_as_string(true) on AsSet(S)
\* and then audiences_as_string(false).
RoundTripOf(S) ==
    /\ Len(calls) = 2
    /\ calls[1].op = "audiences_as_string" /\ calls[1].mode = TRUE
    /\ calls[1].audiences_before = Some(AsSet(S))
    /\ calls[2].op = "audiences_as_string" /\ calls[2].mode = FALSE

RoundTripRestores(S) ==
    /\ calls[1].result = "Ok"
    /\ calls[2].result = "Ok"
    /\ claims.audiences = Some(AsSet(S))

\* C4 as stated: for every one-element set S, the empty string included,
\* AsSet(S) converted to string form and back is AsSet(S) again and both
\* conversions succeed.
C4_RoundTripEveryElement ==
    \A S \in AudienceArgs :
        (Cardinality(S) = 1 /\ RoundTripOf(S)) => RoundTripRestores(S)

\* C4 as amended: the round trip restores AsSet(S) for every one-element set
\* S whose element is not the empty string; for S = {""} both conversions
\* succeed and the result is the empty set.
C4_RoundTripNonEmptyElement ==
    \A S \in AudienceArgs :
        (Cardinality(S) = 1 /\ RoundTripOf(S)) =>
            IF S # {""}
            THEN RoundTripRestores(S)
            ELSE /\ calls[1].result = "Ok"
                 /\ calls[2].result = "Ok"
                 /\ claims.audiences = Some(AsSet({}))

C4_Witness ==
    /\ RoundTripOf({"aud-1"})
    /\ claims.audiences = Some(AsSet({"aud-1"}))
    /\ owned

\* The mode and the set the conversion of the latest call worked on.
CallMode(call) == IF call.op = "audiences_as_string" THEN call.mode ELSE call.mode_before
CallSet(call) ==
    IF call.op = "with_audiences" THEN call.set
    ELSE IF call.audiences_before # None /\ Unwrap(call.audiences_before).tag = "AsSet"
         THEN Unwrap(call.audiences_before).set
         ELSE {}

Failed == calls # << >> /\ LastCall.result = "TooManyAudiences"

\* C5 as stated: when the conversion fails with TooManyAudiences the claim
\* set is returned unchanged alongside the error, with the audience value
\* and the mode flag it had before the call.
C5_ReturnedUnchangedOnFailure ==
    Failed =>
        /\ owned
        /\ claims.audiences = LastCall.audiences_before
        /\ claims.audiences_as_string = LastCall.mode_before

\* C5 as amended: a fallible builder fails exactly in string mode on a set of
\* more than one element; it then returns the error alone and the claim set
\* it consumed is dropped, holding the builder's own assignment (the new mode
\* for audiences_as_string, the new set for with_audiences) and an audience
\* value the conversion has not touched; otherwise the change is fully
\* applied: the mode or set is the requested one and the representation
\* matches the mode.
C5_FailureDropsClaims ==
    calls # << >> =>
        /\ (LastCall.result = "TooManyAudiences") <=>
              (CallMode(LastCall) /\ Cardinality(CallSet(LastCall)) > 1)
        /\ Failed <=> ~owned
        /\ ~owned =>
              /\ claims.audiences_as_string = TRUE
              /\ claims.audiences = Some(AsSet(CallSet(LastCall)))
              /\ LastCall.op = "audiences_as_string" =>
                    claims.audiences = LastCall.audiences_before
              /\ LastCall.op = "with_audiences" =>
                    claims.audiences_as_string = LastCall.mode_before
        /\ owned =>
              /\ claims.audiences_as_string = CallMode(LastCall)
              /\ LastCall.op = "with_audiences" =>
                    claims.audiences =
                        IF claims.audiences_as_string
                        THEN Some(AsString(IF LastCall.set = {} THEN ""
                                           ELSE CHOOSE x \in LastCall.set : TRUE))
                        ELSE Some(AsSet(LastCall.set))
              /\ claims.audiences # None =>
                    (Unwrap(claims.audiences).tag = "AsString") = claims.audiences_as_string

C5_Witness ==
    /\ Failed
    /\ LastCall.op = "audiences_as_string"
    /\ LastCall.audiences_before = Some(AsSet({"aud-1", "aud-2"}))
    /\ LastCall.mode_before = FALSE
    /\ claims.audiences_as_string = TRUE

\* C6: in every state reached from Claims::create or
\* Claims::with_custom_claims by successful builder calls the audience value
\* is absent, or AsString when audiences_as_string is true and AsSet when it
\* is false; and an AsString value came from a set of at most one element:
\* the call that produced it converted a set S with at most one element into
\* the string of that element (the empty string for the empty set), or left
\* an AsString value as it was.
C6_RepresentationFollowsMode ==
    owned =>
        \/ claims.audiences = None
        \/ LET a == Unwrap(claims.audiences) IN
           /\ (a.tag = "AsString") <=> claims.audiences_as_string
           /\ (a.tag = "AsSet") <=> ~claims.audiences_as_string
           /\ a.tag = "AsString" =>
                 /\ calls # << >>
                 /\ \/ /\ LastCall.op = "audiences_as_string"
                       /\ LastCall.audiences_before = claims.audiences
                    \/ /\ Cardinality(CallSet(LastCall)) <= 1
                       /\ CallSet(LastCall) \in {{}, {a.str}}
                       /\ (CallSet(LastCall) = {} => a.str = "")

C6_Witness ==
    /\ owned
    /\ claims.audiences_as_string
    /\ claims.audiences = Some(AsString("aud-1"))
    /\ claims.issuer # None /\ claims.subject # None /\ claims.jwt_id # None
    /\ claims.nonce \in {Some(n) : n \in GeneratedNonces}
    /\ claims.invalid_before = Some(2000)
    /\ claims.custom = "custom"

\* C10: from a claim set in set mode with no audience value,
\* audiences_as_string(true) then with_audiences(S), and with_audiences(S)
\* then audiences_as_string(true), have the same outcome: both fail with
\* TooManyAudiences when S has more than one element, otherwise both succeed
\* with AsString of the single element (of the empty string when S is empty)
\* and the mode flag set.
ModeThenSet(c, S) ==
    LET first == audiences_as_string(c, TRUE) IN
    IF first.result # "Ok" THEN first ELSE with_audiences(first.claims, S)

SetThenMode(c, S) ==
    LET first == with_audiences(c, S) IN
    IF first.result # "Ok" THEN first ELSE audiences_as_string(first.claims, TRUE)

\* What the caller sees of a builder chain: the Result, and on Ok the audience
\* value and mode of the claim set handed back.
Outcome(out) ==
    IF out.result = "Ok"
    THEN <<"Ok", out.claims.audiences, out.claims.audiences_as_string>>
    ELSE <<out.result>>

\* The two latest audience calls started from set mode with no audience value.
FromEmptySetMode == Len(calls) = 2 /\ calls[1].audiences_before = None /\ calls[1].mode_before = FALSE
RanModeThenSet(S) ==
    /\ FromEmptySetMode
    /\ calls[1].op = "audiences_as_string" /\ calls[1].mode = TRUE
    /\ calls[2].op = "with_audiences" /\ calls[2].set = S
RanSetThenMode(S) ==
    /\ FromEmptySetMode
    /\ calls[1].op = "with_audiences" /\ calls[1].set = S
    /\ calls[2].op = "audiences_as_string" /\ calls[2].mode = TRUE

\* The claim set as it was before the two calls (they touch nothing else).
Before == [claims EXCEPT !.audiences = None, !.audiences_as_string = FALSE]
Reached == [claims |-> claims, result |-> LastCall.result]

ExpectedOutcome(S) ==
    IF Cardinality(S) > 1 THEN <<"TooManyAudiences">>
    ELSE <<"Ok", Some(AsString(IF S = {} THEN "" ELSE CHOOSE x \in S : TRUE)), TRUE>>

C10_ModeAndSetCommute ==
    \A S \in AudienceArgs :
        /\ RanModeThenSet(S) =>
              /\ Outcome(Reached) = Outcome(SetThenMode(Before, S))
              /\ Outcome(Reached) = ExpectedOutcome(S)
        /\ RanSetThenMode(S) =>
              /\ Outcome(Reached) = Outcome(ModeThenSet(Before, S))
              /\ Outcome(Reached) = ExpectedOutcome(S)

C10_Witness ==
    /\ RanSetThenMode({"aud-1"})
    /\ owned
    /\ claims.audiences = Some(AsString("aud-1"))
    /\ claims.audiences_as_string

====
